---- MODULE Spec2Model ----
(***************************************************************************)
(* rusync, src/console_info.rs: the console implementation of ProgressInfo *)
(* (start, new_file, progress, done_syncing, end) and its helpers           *)
(* get_terminal_width, erase_line, human_seconds and truncate_lossy.       *)
(*                                                                         *)
(* Text is a sequence of Unicode scalar values (a Rust String); its bytes  *)
(* are its UTF-8 encoding.  Standard output is Rust's line-buffered        *)
(* stdout; the terminal is one row of cells with a cursor.                 *)
(***************************************************************************)
EXTENDS Integers, Sequences, FiniteSets, TLC

VARIABLES
    pc,            \* position in the lifecycle of the ProgressInfo calls
    tty,           \* what term_size::dimensions() answers: a width, or NoTty
    term,          \* the terminal: cursor row's cells, the row above, cursor
    stdoutBuf,     \* characters written to stdout and not yet flushed
    lastCall,      \* the ProgressInfo method that returned last
    lastEmit,      \* the characters that method wrote to stdout
    lastP,         \* the Progress snapshot of the last progress call
    lastLine,      \* the line the last progress call printed
    failure,       \* how the last call failed ("none": it returned)
    lastWrapped,   \* the last progress line left the row it started on
    plainSoFar,    \* every progress line so far: one-column characters only
    summaryStart,  \* the terminal as the first summary character arrives
    call,          \* the pure function under check and its arguments
    ret,           \* its result
    returned       \* whether it has returned

vars == <<pc, tty, term, stdoutBuf, lastCall, lastEmit, lastP, lastLine,
          failure, lastWrapped, plainSoFar, summaryStart, call, ret, returned>>

lifecycleVars == <<pc, tty, term, stdoutBuf, lastCall, lastEmit, lastP, lastLine,
                   failure, lastWrapped, plainSoFar, summaryStart>>

(***************************************************************************)
(* Characters                                                              *)
(***************************************************************************)
SPACE == 32
CR == 13
LF == 10
ZERO == 48
COLON == 58
PERCENT == 37
SLASH == 47
\* U+FFFD, what String::from_utf8_lossy puts for an invalid sequence
REPLACEMENT == 65533

Min(a, b) == IF a < b THEN a ELSE b
Max(a, b) == IF a > b THEN a ELSE b

Repeat(c, n) == [i \in 1..Max(n, 0) |-> c]

RECURSIVE Concat(_)
Concat(ss) == IF ss = <<>> THEN <<>> ELSE Head(ss) \o Concat(Tail(ss))

(***************************************************************************)
(* UTF-8: String::into_bytes and String::from_utf8_lossy                   *)
(***************************************************************************)
Utf8Len(cp) ==
    IF cp < 128 THEN 1 ELSE IF cp < 2048 THEN 2 ELSE IF cp < 65536 THEN 3 ELSE 4

EncodeChar(cp) ==
    CASE Utf8Len(cp) = 1 -> <<cp>>
      [] Utf8Len(cp) = 2 -> <<192 + (cp \div 64), 128 + (cp % 64)>>
      [] Utf8Len(cp) = 3 -> <<224 + (cp \div 4096), 128 + ((cp \div 64) % 64),
                              128 + (cp % 64)>>
      [] OTHER           -> <<240 + (cp \div 262144), 128 + ((cp \div 4096) % 64),
                              128 + ((cp \div 64) % 64), 128 + (cp % 64)>>

\* text.to_string().into_bytes()
into_bytes(text) == Concat([i \in 1..Len(text) |-> EncodeChar(text[i])])

\* String::len(): the length in bytes
ByteLen(text) == Len(into_bytes(text))

\* The length of the sequence a lead byte opens; 0 for a byte that opens none.
SeqLen(b) ==
    IF b < 128 THEN 1
    ELSE IF b >= 194 /\ b <= 223 THEN 2
    ELSE IF b >= 224 /\ b <= 239 THEN 3
    ELSE IF b >= 240 /\ b <= 244 THEN 4
    ELSE 0

\* The range a sequence's second byte must lie in (well-formed UTF-8).
SecondLo(b) == IF b = 224 THEN 160 ELSE IF b = 240 THEN 144 ELSE 128
SecondHi(b) == IF b = 237 THEN 159 ELSE IF b = 244 THEN 143 ELSE 191

ContOk(bs, i) ==
    /\ i <= Len(bs)
    /\ IF i = 2 THEN bs[i] >= SecondLo(bs[1]) /\ bs[i] <= SecondHi(bs[1])
                ELSE bs[i] >= 128 /\ bs[i] <= 191

\* How many bytes of bs form the longest valid start of one sequence.
RECURSIVE MatchLen(_, _, _)
MatchLen(bs, k, n) ==
    IF k < n /\ ContOk(bs, k + 1) THEN MatchLen(bs, k + 1, n) ELSE k

DecodeChar(bs, n) ==
    CASE n = 1 -> bs[1]
      [] n = 2 -> (bs[1] - 192) * 64 + (bs[2] - 128)
      [] n = 3 -> (bs[1] - 224) * 4096 + (bs[2] - 128) * 64 + (bs[3] - 128)
      [] OTHER -> (bs[1] - 240) * 262144 + (bs[2] - 128) * 4096
                  + (bs[3] - 128) * 64 + (bs[4] - 128)

Drop(s, n) == SubSeq(s, n + 1, Len(s))

\* A mutant of from_utf8_lossy: an invalid sequence is dropped, not replaced.
RECURSIVE LossyDropping(_)
LossyDropping(bs) ==
    IF bs = <<>> THEN <<>>
    ELSE LET n == SeqLen(bs[1])
             k == IF n = 0 THEN 1 ELSE MatchLen(bs, 1, n)
         IN  IF n # 0 /\ k = n
             THEN <<DecodeChar(bs, n)>> \o LossyDropping(Drop(bs, n))
             ELSE LossyDropping(Drop(bs, k))

\* String::from_utf8_lossy(&as_bytes).to_string(): every maximal invalid
\* sequence becomes one U+FFFD.
RECURSIVE Utf8Lossy(_)
Utf8Lossy(bs) ==
    IF bs = <<>> THEN <<>>
    ELSE LET n == SeqLen(bs[1])
             k == IF n = 0 THEN 1 ELSE MatchLen(bs, 1, n)
         IN  IF n # 0 /\ k = n
             THEN <<DecodeChar(bs, n)>> \o Utf8Lossy(Drop(bs, n))
             ELSE <<REPLACEMENT>> \o Utf8Lossy(Drop(bs, k))

from_utf8_lossy(bs) == Utf8Lossy(bs)

\* A mutant of Vec::truncate: one byte too many is kept.
VecTruncateOffByOne(bs, maxsize) == SubSeq(bs, 1, Min(maxsize + 1, Len(bs)))

\* as_bytes.truncate(maxsize): no effect when maxsize >= len
VecTruncate(bs, maxsize) == SubSeq(bs, 1, Min(maxsize, Len(bs)))

truncate_lossy(text, maxsize) ==
    from_utf8_lossy(VecTruncate(into_bytes(text), maxsize))

(***************************************************************************)
(* Number formatting                                                       *)
(***************************************************************************)
\* usize::to_string(), "{}"
RECURSIVE Decimal(_)
Decimal(n) ==
    IF n < 10 THEN <<ZERO + n>> ELSE Decimal(n \div 10) \o <<ZERO + (n % 10)>>

\* "{:02}"
ZeroPad2(n) == Repeat(ZERO, 2 - Len(Decimal(n))) \o Decimal(n)

\* "{:>3}"
RightAlign(s, width) == Repeat(SPACE, width - Len(s)) \o s

\* A mutant of LeftAlign: the padding is counted in bytes, not characters.
LeftAlignBytes(s, width) == s \o Repeat(SPACE, width - ByteLen(s))

\* "{filename:<pad$}": padded with spaces to width characters
LeftAlign(s, width) == s \o Repeat(SPACE, width - Len(s))

\* A mutant of human_seconds: the minutes are not reduced modulo 60.
human_seconds_total_minutes(s) ==
    ZeroPad2(s \div 3600) \o <<COLON>> \o ZeroPad2(s \div 60)
        \o <<COLON>> \o ZeroPad2(s % 60)

human_seconds(s) ==
    LET hours   == s \div 3600
        minutes == (s \div 60) % 60
        seconds == s % 60
    IN  ZeroPad2(hours) \o <<COLON>> \o ZeroPad2(minutes)
            \o <<COLON>> \o ZeroPad2(seconds)

(***************************************************************************)
(* The terminal and standard output                                        *)
(***************************************************************************)
FALLBACK_WIDTH == 80

\* term_size::dimensions() answers Some((w, h)), here <<w, h>>, or None, <<>>.
get_terminal_width(dims) == IF dims # <<>> THEN dims[1] ELSE FALLBACK_WIDTH

\* The columns a character takes on the terminal: two for East Asian wide
\* characters and emoji, one otherwise.
ColWidth(cp) ==
    IF (cp >= 19968 /\ cp <= 40959) \/ (cp >= 127744 /\ cp <= 129791)
    THEN 2 ELSE 1

IsPlain(cp) == cp >= SPACE /\ ColWidth(cp) = 1

BlankRow(W) == [i \in 1..W |-> SPACE]

\* The second cell of a two-column character.
WIDE_TAIL == 0

\* One character arriving at a terminal of W columns with deferred wrap.
TermPut(t, W, cp) ==
    IF cp = CR THEN [t EXCEPT !.col = 0, !.pend = FALSE]
    ELSE IF cp = LF
    THEN [row |-> BlankRow(W), col |-> 0, pend |-> FALSE, moved |-> TRUE]
    ELSE LET w    == ColWidth(cp)
             wrap == t.pend \/ t.col + w > W
             row0 == IF wrap THEN BlankRow(W) ELSE t.row
             col0 == IF wrap THEN 0 ELSE t.col
             row1 == IF w = 2
                     THEN [row0 EXCEPT ![col0 + 1] = cp, ![col0 + 2] = WIDE_TAIL]
                     ELSE [row0 EXCEPT ![col0 + 1] = cp]
         IN  [row   |-> row1,
              col   |-> IF col0 + w >= W THEN W - 1 ELSE col0 + w,
              pend  |-> col0 + w >= W,
              moved |-> t.moved \/ wrap]

\* The characters of s from the i-th on arriving in order, t being the
\* terminal after the first i - 1 of them (a column is never below 0).
RECURSIVE TermWriteFrom(_, _, _, _)
TermWriteFrom(t, W, s, i) ==
    IF i > Len(s) \/ t.col < 0 THEN t
    ELSE TermWriteFrom(TermPut(t, W, s[i]), W, s, i + 1)

TermWrite(t, W, s) == TermWriteFrom(t, W, s, 1)

\* The terminal receiving s, with its record of having left the row cleared.
TermReceive(t, W, s) == TermWrite([t EXCEPT !.moved = FALSE], W, s)

\* The place of the last newline of s, 0 when it has none.
LastNewline(s) ==
    LET ks == {k \in 1..Len(s) : s[k] = LF}
    IN  IF ks = {} THEN 0 ELSE CHOOSE k \in ks : \A j \in ks : j <= k

\* What stdout, holding buf, does with out, whose last newline is at k.
StdoutSplit(buf, out, k) ==
    IF k = 0 THEN [sent |-> <<>>, buf |-> buf \o out]
    ELSE [sent |-> buf \o SubSeq(out, 1, k), buf |-> Drop(out, k)]

\* print!: stdout is line-buffered, it passes on what it holds up to the
\* last newline written and keeps the rest.
StdoutPrint(buf, out) == StdoutSplit(buf, out, LastNewline(out))

\* io::stdout().flush()
StdoutFlush(buf) == [sent |-> buf, buf |-> <<>>]

(***************************************************************************)
(* ConsoleProgressInfo                                                     *)
(***************************************************************************)
percent_width == 3
num_separators == 5

widgets_width(p) ==
    percent_width + Len(Decimal(p.index)) + Len(Decimal(p.num_files))
        + Len(human_seconds(p.eta))

\* A mutant of file_width: no column is kept free at the end of the row.
file_width_no_reserve(p, W) == W - widgets_width(p) - num_separators

\* line_width - widgets_width - num_separators - 1, in usize: a value
\* below 0 here is a subtraction that overflows there.
file_width(p, W) == W - widgets_width(p) - num_separators - 1

\* A mutant of file_percent: rounded to the nearest integer.
file_percent_rounded(p) ==
    (p.file_done * 100 + (p.file_size \div 2)) \div p.file_size

\* ((progress.file_done * 100) as usize) / progress.file_size
file_percent(p) == (p.file_done * 100) \div p.file_size

\* "{:>3}% {}/{} {} {:<}\r"
progress_line(p, W) ==
    LET eta_str      == human_seconds(p.eta)
        fw           == file_width(p, W)
        current_file == LeftAlign(truncate_lossy(p.current_file, fw), fw)
    IN  RightAlign(Decimal(file_percent(p)), 3) \o <<PERCENT, SPACE>>
            \o Decimal(p.index) \o <<SLASH>> \o Decimal(p.num_files)
            \o <<SPACE>> \o current_file \o <<SPACE>> \o eta_str \o <<CR>>

\* A mutant of erase_line: one space too few.
erase_line_short(W) == Repeat(SPACE, W - 1) \o <<CR>>

\* print!("{}\r", String::from_utf8(vec![32; line_width]).unwrap())
erase_line(W) == Repeat(SPACE, W) \o <<CR>>

\* ":: Syncing from <source> to <destination> ..." and a newline
start_line(source, destination) ==
    <<58, 58, 32, 83, 121, 110, 99, 105, 110, 103, 32, 102, 114, 111, 109, 32>>
        \o source \o <<32, 116, 111, 32>> \o destination \o <<32, 8230, LF>>

\* The two lines of the summary, each with its newline.
summary_line1(stats) ==
    <<32, 10003, 32, 83, 121, 110, 99, 101, 100, 32>> \o Decimal(stats.num_synced)
        \o <<32, 102, 105, 108, 101, 115, 32, 40>> \o Decimal(stats.up_to_date)
        \o <<32, 117, 112, 32, 116, 111, 32, 100, 97, 116, 101, 41, LF>>

summary_line2(stats) ==
    Decimal(stats.copied)
        \o <<32, 102, 105, 108, 101, 115, 32, 99, 111, 112, 105, 101, 100, 44, 32>>
        \o Decimal(stats.symlink_created)
        \o <<32, 115, 121, 109, 108, 105, 110, 107, 115, 32, 99, 114, 101, 97,
             116, 101, 100, 44, 32>>
        \o Decimal(stats.symlink_updated)
        \o <<32, 115, 121, 109, 108, 105, 110, 107, 115, 32, 117, 112, 100, 97,
             116, 101, 100, LF>>

(***************************************************************************)
(* What the sync engine passes in                                          *)
(***************************************************************************)
TtyAnswers == {<<>>, <<21, 24>>, <<28, 24>>}

\* "", "usr", three 2-byte characters, two two-column characters, a name
\* with a newline in it
Files ==
    {<<>>, <<117, 115, 114>>, <<233, 233, 233>>, <<128512, 128512>>,
     <<97, LF, 98>>}

Snapshots ==
    {p \in [index: {1, 9, 10}, num_files: {1, 10}, current_file: Files,
            file_done: 0..3, file_size: {0, 3}, eta: {65, 360000}] :
        /\ p.index <= p.num_files
        /\ p.file_done <= p.file_size
        /\ p.num_files = 10 => p.index > 1}

NoProgress ==
    [index |-> 0, num_files |-> 0, current_file |-> <<>>, file_done |-> 0,
     file_size |-> 0, eta |-> 0]

AllStats ==
    {[num_synced |-> 10, up_to_date |-> 3, copied |-> 7, symlink_created |-> 1,
      symlink_updated |-> 0],
     [num_synced |-> 0, up_to_date |-> 0, copied |-> 0, symlink_created |-> 0,
      symlink_updated |-> 0]}

\* "/src", "/dst"
SRC == <<47, 115, 114, 99>>
DST == <<47, 100, 115, 116>>

NoCall == [fn |-> "none"]

W == get_terminal_width(tty)

(***************************************************************************)
(* The lifecycle start -> (new_file | progress)* -> done_syncing -> end    *)
(***************************************************************************)
Init ==
    /\ pc = "new"
    /\ tty \in TtyAnswers
    /\ term = [row |-> BlankRow(W), col |-> 0, pend |-> FALSE, moved |-> FALSE]
    /\ stdoutBuf = <<>>
    /\ lastCall = "none"
    /\ lastEmit = <<>>
    /\ lastP = NoProgress
    /\ lastLine = <<>>
    /\ failure = "none"
    /\ lastWrapped = FALSE
    /\ plainSoFar = TRUE
    /\ summaryStart = term
    /\ call = NoCall
    /\ ret = <<>>
    /\ returned = FALSE

Start(source, destination) ==
    /\ pc = "new"
    /\ LET out == start_line(source, destination)
           io  == StdoutPrint(stdoutBuf, out)
       IN  /\ lastEmit' = out
           /\ stdoutBuf' = io.buf
           /\ term' = TermReceive(term, W, io.sent)
    /\ pc' = "syncing"
    /\ lastCall' = "start"
    /\ UNCHANGED <<tty, lastP, lastLine, failure, lastWrapped, plainSoFar,
                   summaryStart, call, ret, returned>>

NewFile(name) ==
    /\ pc = "syncing"
    /\ lastCall' = "new_file"
    /\ lastEmit' = <<>>
    /\ UNCHANGED <<pc, tty, term, stdoutBuf, lastP, lastLine, failure,
                   lastWrapped, plainSoFar, summaryStart, call, ret, returned>>

\* The call fails before anything is printed.
ProgressFails(how) ==
    /\ pc' = "panicked"
    /\ failure' = how
    /\ lastEmit' = <<>>
    /\ UNCHANGED <<term, stdoutBuf, lastLine, lastWrapped, plainSoFar>>

\* io::stdout().flush() after the print!, which left stdout as printed:
\* all that stdout holds reaches the terminal.
ProgressFlushes(out, printed) ==
    /\ lastEmit' = out
    /\ lastLine' = out
    /\ stdoutBuf' = StdoutFlush(printed.buf).buf
    /\ term' = TermReceive(term, W, printed.sent \o StdoutFlush(printed.buf).sent)
    /\ lastWrapped' = term'.moved
    /\ plainSoFar' = (plainSoFar /\ \A i \in 1..(Len(out) - 1) : IsPlain(out[i]))
    /\ UNCHANGED <<pc, failure>>

\* print!("{:>3}% {}/{} {} {:<}\r", ...)
ProgressPrints(out) == ProgressFlushes(out, StdoutPrint(stdoutBuf, out))

Progress(p) ==
    /\ pc = "syncing"
    /\ lastCall' = "progress"
    /\ lastP' = p
    /\ IF file_width(p, W) < 0
       THEN \* With overflow checks the subtraction panics; without them it
            \* wraps to file_width + 2^64, a padding no String can hold.
            \E how \in {"subtract_overflow", "padding_too_wide"} :
                ProgressFails(how)
       ELSE IF p.file_size = 0
       THEN ProgressFails("divide_by_zero")
       ELSE ProgressPrints(progress_line(p, W))
    /\ UNCHANGED <<tty, summaryStart, call, ret, returned>>

DoneSyncing ==
    /\ pc = "syncing"
    /\ LET out == erase_line(W)
           io  == StdoutPrint(stdoutBuf, out)
       IN  /\ lastEmit' = out
           /\ stdoutBuf' = io.buf
           /\ term' = TermWrite(term, W, io.sent)
    /\ pc' = "synced"
    /\ lastCall' = "done_syncing"
    /\ UNCHANGED <<tty, lastP, lastLine, failure, lastWrapped, plainSoFar,
                   summaryStart, call, ret, returned>>

End(stats) ==
    /\ pc = "synced"
    /\ LET line1 == summary_line1(stats)
           line2 == summary_line2(stats)
           io1   == StdoutPrint(stdoutBuf, line1)
           io2   == StdoutPrint(io1.buf, line2)
       IN  /\ lastEmit' = line1 \o line2
           /\ stdoutBuf' = io2.buf
           \* what stdout held reaches the terminal ahead of the summary
           /\ summaryStart' = TermReceive(term, W, stdoutBuf)
           /\ term' = TermReceive(term, W, io1.sent \o io2.sent)
    /\ pc' = "ended"
    /\ lastCall' = "end"
    /\ UNCHANGED <<tty, lastP, lastLine, failure, lastWrapped, plainSoFar,
                   call, ret, returned>>

Next ==
    \/ Start(SRC, DST)
    \/ \E name \in Files : NewFile(name)
    \/ \E p \in Snapshots : Progress(p)
    \/ DoneSyncing
    \/ \E stats \in AllStats : End(stats)

Spec == Init /\ [][Next]_vars

(***************************************************************************)
(* truncate_lossy and human_seconds on their own                           *)
(***************************************************************************)
MaxTextLen == 3
MaxBytes == 13
MaxSeconds == 7500
\* the longest duration the tests of human_seconds format
TEST_SECONDS == 720002

\* 'a' (1 byte), U+00E9 (2 bytes), U+20AC (3 bytes), U+1F600 (4 bytes)
TextAlphabet == {97, 233, 8364, 128512}

Texts == UNION {[1..n -> TextAlphabet] : n \in 0..MaxTextLen}

SecondsDomain ==
    (0..MaxSeconds) \cup ((TEST_SECONDS - 2)..(TEST_SECONDS + 2))
        \cup {360000 + k * 3599 : k \in 0..2}

Idle ==
    /\ pc = "idle"
    /\ tty = <<>>
    /\ term = [row |-> <<>>, col |-> 0, pend |-> FALSE, moved |-> FALSE]
    /\ stdoutBuf = <<>>
    /\ lastCall = "none"
    /\ lastEmit = <<>>
    /\ lastP = NoProgress
    /\ lastLine = <<>>
    /\ failure = "none"
    /\ lastWrapped = FALSE
    /\ plainSoFar = TRUE
    /\ summaryStart = term

InitTruncate ==
    /\ Idle
    /\ call \in [fn: {"truncate_lossy"}, text: Texts, maxsize: 0..MaxBytes]
    /\ ret = <<>>
    /\ returned = FALSE

TruncateLossy ==
    /\ call.fn = "truncate_lossy"
    /\ ~returned
    /\ ret' = truncate_lossy(call.text, call.maxsize)
    /\ returned' = TRUE
    /\ UNCHANGED <<lifecycleVars, call>>

SpecTruncate == InitTruncate /\ [][TruncateLossy]_vars

InitSeconds ==
    /\ Idle
    /\ call \in [fn: {"human_seconds"}, s: SecondsDomain]
    /\ ret = <<>>
    /\ returned = FALSE

HumanSeconds ==
    /\ call.fn = "human_seconds"
    /\ ~returned
    /\ ret' = human_seconds(call.s)
    /\ returned' = TRUE
    /\ UNCHANGED <<lifecycleVars, call>>

SpecSeconds == InitSeconds /\ [][HumanSeconds]_vars

(***************************************************************************)
(* What the properties are stated in                                       *)
(***************************************************************************)
RECURSIVE EncodedLen(_)
EncodedLen(text) ==
    IF text = <<>> THEN 0 ELSE Utf8Len(Head(text)) + EncodedLen(Tail(text))

\* The number of leading whole characters of text that fit in m bytes.
FittingChars(text, m) ==
    CHOOSE k \in 0..Len(text) :
        /\ EncodedLen(SubSeq(text, 1, k)) <= m
        /\ k < Len(text) => EncodedLen(SubSeq(text, 1, k + 1)) > m

WholePrefix(text, m) == SubSeq(text, 1, FittingChars(text, m))

\* The budget m ends inside a character of text.
CutsMidChar(text, m) ==
    m < EncodedLen(text) /\ EncodedLen(WholePrefix(text, m)) < m

IsScalar(cp) == cp >= 0 /\ cp <= 1114111 /\ ~(cp >= 55296 /\ cp <= 57343)

Truncated == call.fn = "truncate_lossy" /\ returned

RECURSIVE NumDigits(_)
NumDigits(n) == IF n < 10 THEN 1 ELSE 1 + NumDigits(n \div 10)

IsDigits(ds) == \A i \in 1..Len(ds) : ds[i] >= ZERO /\ ds[i] <= ZERO + 9

RECURSIVE ParseDecimal(_)
ParseDecimal(ds) ==
    IF ds = <<>> THEN 0
    ELSE ParseDecimal(SubSeq(ds, 1, Len(ds) - 1)) * 10 + (ds[Len(ds)] - ZERO)

Front(s) == SubSeq(s, 1, Len(s) - 1)

Columns(s) == Len(s) + Cardinality({i \in 1..Len(s) : ColWidth(s[i]) = 2})

\* The cells a text fills on a row wide enough for it.
Cells(s) ==
    Concat([i \in 1..Len(s) |->
               IF ColWidth(s[i]) = 2 THEN <<s[i], WIDE_TAIL>> ELSE <<s[i]>>])

Valid(p) ==
    /\ p.file_size > 0
    /\ 0 <= p.file_done /\ p.file_done <= p.file_size
    /\ 1 <= p.index /\ p.index <= p.num_files

EtaLen(p) == Len(human_seconds(p.eta))

\* W - (3 + index_digits + total_digits + eta_len) - 5 - 1
LayoutFileWidth(p) ==
    W - (3 + NumDigits(p.index) + NumDigits(p.num_files) + EtaLen(p)) - 5 - 1

\* Where the filename field of the line of p starts, and where it ends.
FieldFirst(p) == 3 + 2 + NumDigits(p.index) + 1 + NumDigits(p.num_files) + 1 + 1
FieldLast(p) == FieldFirst(p) + LayoutFileWidth(p) - 1

ProgressCalled == lastCall = "progress"
ProgressPrinted == lastCall = "progress" /\ failure = "none"

(***************************************************************************)
(* C1  truncate_lossy never fails and its result is at most max_bytes     *)
(*     bytes long.                                                         *)
(***************************************************************************)
\* C1 as claimed: the result is never longer than max_bytes bytes.
C1_ByteLengthWithinBudget ==
    Truncated => ByteLen(ret) <= call.maxsize

\* C1: truncate_lossy always returns a text; the text has at most max_bytes
\* characters; it is longer than max_bytes bytes only when the budget ends
\* inside a character, and then by at most 2 bytes.
C1_CharLengthWithinBudget ==
    Truncated =>
        /\ \A i \in 1..Len(ret) : IsScalar(ret[i])
        /\ Len(ret) <= call.maxsize
        /\ ByteLen(ret) <= call.maxsize + 2
        /\ ByteLen(ret) > call.maxsize => CutsMidChar(call.text, call.maxsize)

C1_Witness ==
    /\ Truncated
    /\ CutsMidChar(call.text, call.maxsize)
    /\ ByteLen(ret) = call.maxsize + 2

(***************************************************************************)
(* C2  on a text of multi-byte characters truncate_lossy returns the       *)
(*     longest prefix of whole characters that fits the budget.            *)
(***************************************************************************)
AllMultiByte(text) == \A i \in 1..Len(text) : Utf8Len(text[i]) > 1

\* C2 as claimed: exactly the whole characters that fit, and nothing else.
C2_ExactlyWholePrefix ==
    (Truncated /\ AllMultiByte(call.text)) =>
        ret = WholePrefix(call.text, call.maxsize)

\* C2: the result is the longest prefix of whole characters that fits the
\* budget, followed by one U+FFFD exactly when the budget ends inside a
\* character.
C2_WholePrefixThenReplacement ==
    Truncated =>
        ret = WholePrefix(call.text, call.maxsize)
                \o (IF CutsMidChar(call.text, call.maxsize)
                    THEN <<REPLACEMENT>> ELSE <<>>)

C2_Witness ==
    /\ Truncated
    /\ call.text = <<233, 233, 233>>
    /\ call.maxsize = 3
    /\ ret = <<233, REPLACEMENT>>

(***************************************************************************)
(* C7  human_seconds(s) is HH:MM:SS                                        *)
(***************************************************************************)
Formatted == call.fn = "human_seconds" /\ returned

\* C7: the result is hours, ':', two digits of minutes, ':', two digits of
\* seconds; the hours are floor(s/3600) in at least 2 digits and as many as
\* they need; minutes and seconds are below 60; together they make s.
C7_HumanSeconds ==
    Formatted =>
        LET n  == Len(ret)
            hh == SubSeq(ret, 1, n - 6)
            mm == SubSeq(ret, n - 4, n - 3)
            ss == SubSeq(ret, n - 1, n)
        IN  /\ n >= 8
            /\ ret[n - 5] = COLON /\ ret[n - 2] = COLON
            /\ IsDigits(hh) /\ IsDigits(mm) /\ IsDigits(ss)
            /\ Len(hh) = Max(2, NumDigits(call.s \div 3600))
            /\ ParseDecimal(hh) = call.s \div 3600
            /\ ParseDecimal(mm) = (call.s \div 60) % 60
            /\ ParseDecimal(ss) = call.s % 60
            /\ ParseDecimal(mm) < 60 /\ ParseDecimal(ss) < 60
            /\ ParseDecimal(hh) * 3600 + ParseDecimal(mm) * 60 + ParseDecimal(ss)
                   = call.s

\* 720002 -> "200:00:02"
C7_Witness ==
    /\ Formatted
    /\ call.s = TEST_SECONDS
    /\ ret = <<50, 48, 48, 58, 48, 48, 58, 48, 50>>

(***************************************************************************)
(* C3  below the width the fixed widgets need, progress clamps file_width  *)
(*     to 0 and prints a line with an empty filename field.                *)
(***************************************************************************)
\* C3 as claimed: with W < 3 + index_digits + total_digits + eta_len + 5 + 1
\* a progress call with a valid snapshot returns, having printed a line
\* whose filename field is empty.
C3_ClampsToZero ==
    (ProgressCalled /\ Valid(lastP) /\ LayoutFileWidth(lastP) < 0) =>
        /\ failure = "none"
        /\ lastEmit = lastLine
        /\ Len(lastLine) = FieldFirst(lastP) + 1 + EtaLen(lastP)

(***************************************************************************)
(* C4  the length of the line progress prints                              *)
(***************************************************************************)
\* C4 as claimed: before its final character the line is
\* 3 + 1 + index_digits + 1 + total_digits + 1 + file_width + 1 + eta_len
\* columns wide, it ends in a carriage return and holds no newline.
C4_ClaimedLayout ==
    (ProgressPrinted /\ Valid(lastP) /\ LayoutFileWidth(lastP) >= 0) =>
        /\ Columns(Front(lastLine)) =
               3 + 1 + NumDigits(lastP.index) + 1 + NumDigits(lastP.num_files)
                 + 1 + LayoutFileWidth(lastP) + 1 + EtaLen(lastP)
        /\ lastLine[Len(lastLine)] = CR
        /\ \A i \in 1..Len(lastLine) : lastLine[i] # LF

\* C4: before its final character the line has
\* 3 + 2 + index_digits + 1 + total_digits + 1 + file_width + 1 + eta_len
\* = W - 1 characters, which is its width in columns when the filename
\* field holds one-column characters only; its final character is a
\* carriage return and it holds no newline outside the filename field.
C4_Layout ==
    (ProgressPrinted /\ Valid(lastP) /\ LayoutFileWidth(lastP) >= 0) =>
        LET body == Front(lastLine)
        IN  /\ Len(body) =
                   3 + 2 + NumDigits(lastP.index) + 1 + NumDigits(lastP.num_files)
                     + 1 + LayoutFileWidth(lastP) + 1 + EtaLen(lastP)
            /\ Len(body) = W - 1
            /\ (\A i \in FieldFirst(lastP)..FieldLast(lastP) : IsPlain(body[i]))
                   => Columns(body) = Len(body)
            /\ lastLine[Len(lastLine)] = CR
            /\ \A i \in 1..Len(lastLine) :
                   lastLine[i] = LF => i \in FieldFirst(lastP)..FieldLast(lastP)

\* a line whose filename was cut inside a character, index of two digits
C4_Witness ==
    /\ ProgressPrinted /\ Valid(lastP)
    /\ lastP.num_files = 10
    /\ LayoutFileWidth(lastP) > 0
    /\ \E i \in 1..Len(lastLine) : lastLine[i] = REPLACEMENT

(***************************************************************************)
(* C5  every ProgressInfo method flushes stdout before it returns.         *)
(***************************************************************************)
\* C5 as claimed: once a method has returned, stdout holds nothing back.
C5_NothingBuffered ==
    lastCall # "none" => stdoutBuf = <<>>

(***************************************************************************)
(* C6  a snapshot with file_size = 0 fails with a division by zero.        *)
(***************************************************************************)
\* C6 as claimed: a progress call with file_size = 0 fails dividing by
\* zero, and has printed nothing.
C6_DivisionByZero ==
    (ProgressCalled /\ lastP.file_size = 0) =>
        /\ failure = "divide_by_zero"
        /\ lastEmit = <<>>

C9_RowShowsLatestLine ==
    (ProgressPrinted /\ Valid(lastP)) =>
        /\ term.col = 0
        /\ ~lastWrapped
        /\ LET cells == Cells(Front(lastLine))
           IN  term.row = cells \o Repeat(SPACE, W - Len(cells))

\* C9: as long as every line printed so far holds printable one-column
\* characters only, the row shows the W - 1 characters of the line just
\* printed followed by one blank cell, the cursor at column 0.
C9_RowShowsLatestPlainLine ==
    (ProgressPrinted /\ Valid(lastP) /\ plainSoFar) =>
        /\ term.col = 0
        /\ ~term.pend
        /\ ~lastWrapped
        /\ term.row = Front(lastLine) \o <<SPACE>>

\* a line with a filename cut inside a multi-byte character, two-digit total
C9_Witness ==
    /\ ProgressPrinted /\ Valid(lastP) /\ plainSoFar
    /\ lastP.num_files = 10
    /\ \E i \in 1..Len(lastLine) : lastLine[i] = REPLACEMENT
    /\ term.row = Front(lastLine) \o <<SPACE>>

(***************************************************************************)
(* C10 done_syncing blanks the row before the summary.                     *)
(***************************************************************************)
IsBlank(row) == \A i \in 1..Len(row) : row[i] = SPACE

\* C10 as claimed: done_syncing writes W spaces and a carriage return,
\* which cover every cell the last progress line filled; new_file writes
\* nothing; the summary starts at column 0 of a blank row.
C10_ErasureCoversLastLine ==
    /\ lastCall = "done_syncing" => lastEmit = Repeat(SPACE, W) \o <<CR>>
    /\ lastCall = "new_file" => lastEmit = <<>>
    /\ (pc \in {"synced", "ended"} /\ lastLine # <<>>) =>
           ~lastWrapped /\ Len(Cells(Front(lastLine))) <= W
    /\ pc = "ended" => summaryStart.col = 0 /\ IsBlank(summaryStart.row)

\* C10: done_syncing writes W spaces and a carriage return and no newline;
\* these cover the last progress line when that line stayed on its row;
\* new_file writes nothing; the summary starts at column 0 of a blank row.
C10_ErasureBlanksRow ==
    /\ lastCall = "done_syncing" => lastEmit = Repeat(SPACE, W) \o <<CR>>
    /\ lastCall = "new_file" => lastEmit = <<>>
    /\ (pc \in {"synced", "ended"} /\ lastLine # <<>> /\ ~lastWrapped) =>
           Len(Cells(Front(lastLine))) <= W
    /\ pc = "ended" =>
           /\ summaryStart.col = 0
           /\ ~summaryStart.pend
           /\ ~summaryStart.moved
           /\ IsBlank(summaryStart.row)

C10_Witness ==
    /\ pc = "ended"
    /\ lastLine # <<>>
    /\ ~lastWrapped
    /\ IsBlank(summaryStart.row)

====
